---- MODULE Spec2Model ----
(***************************************************************************)
(* Spatial Semantic Pointers: make_good_unitary, power_ssp and the         *)
(* from-scratch transform custom_fft / custom_ifft of python/utils.py.     *)
(*                                                                         *)
(* Arithmetic is exact.  Every complex number the program handles here is  *)
(* an element of the cyclotomic field Q(zeta), zeta = exp(2*pi*i/Order),   *)
(* written n/d with n an integer vector over the basis 1, zeta, ...,       *)
(* zeta^7 (zeta^8 = zeta^4 - 1) and d a positive integer, in lowest terms. *)
(* An angle is a whole number of units of 2*pi/Order; pi is HalfTurn       *)
(* units.  Floating-point rounding is not modelled: "allclose" is          *)
(* equality.                                                               *)
(***************************************************************************)
EXTENDS Integers, Sequences, FiniteSets, TLC

\* zeta is a primitive 24th root of unity: the field holds the twiddle
\* factors of every transform length dividing 24.
Order == 8 * 3
HalfTurn == Order \div 2
QuarterTurn == Order \div 4
Basis == 1..8

\* no vector, and no call of power_ssp
None == << >>
NoCall == [exponent |-> << 0, 0 >>, ssp_fft |-> << >>, pow |-> << >>,
           ssp_pow |-> << >>, dropped |-> << >>]

Abs(i) == IF i < 0 THEN -i ELSE i
Sgn(i) == IF i < 0 THEN -1 ELSE IF i > 0 THEN 1 ELSE 0

RECURSIVE Gcd(_, _)
Gcd(p, q) == IF q = 0 THEN Abs(p) ELSE Gcd(q, p % Abs(q))

RECURSIVE GcdTo(_, _, _)
GcdTo(n, k, g) == IF k = 0 \/ g = 1 THEN g ELSE GcdTo(n, k - 1, Gcd(g, n[k]))

\* f[1..8] and f[1..k] as tuples
T8(f) == << f[1], f[2], f[3], f[4], f[5], f[6], f[7], f[8] >>

RECURSIVE Vec(_, _)
Vec(f, k) == IF k = 0 THEN << >> ELSE Append(Vec(f, k - 1), f[k])

\* integer vectors over the basis: sum, difference, multiple, exact quotient
NAdd(n, m) ==
    << n[1] + m[1], n[2] + m[2], n[3] + m[3], n[4] + m[4],
       n[5] + m[5], n[6] + m[6], n[7] + m[7], n[8] + m[8] >>
NSub(n, m) ==
    << n[1] - m[1], n[2] - m[2], n[3] - m[3], n[4] - m[4],
       n[5] - m[5], n[6] - m[6], n[7] - m[7], n[8] - m[8] >>
NScale(n, c) ==
    << c * n[1], c * n[2], c * n[3], c * n[4], c * n[5], c * n[6], c * n[7], c * n[8] >>
NQuot(n, g) ==
    << n[1] \div g, n[2] \div g, n[3] \div g, n[4] \div g,
       n[5] \div g, n[6] \div g, n[7] \div g, n[8] \div g >>
NZero == <<0, 0, 0, 0, 0, 0, 0, 0>>

\* the number n/d in lowest terms
C(n, d) ==
    LET g == GcdTo(n, 8, d)
    IN  IF g = 1 THEN [n |-> n, d |-> d] ELSE [n |-> NQuot(n, g), d |-> d \div g]

\* zeta * n, by zeta^8 = zeta^4 - 1
TimesZeta(n) ==
    << -n[8], n[1], n[2], n[3], n[4] + n[8], n[5], n[6], n[7] >>

RECURSIVE ZetaPow(_)
ZetaPow(k) == IF k = 0 THEN <<1, 0, 0, 0, 0, 0, 0, 0>> ELSE TimesZeta(ZetaPow(k - 1))

\* RootTab[k + 1] = zeta^k for k in 0..Order-1
RootTab == Vec([k \in 1..Order |-> ZetaPow(k - 1)], Order)

\* exp(2*pi*i*k/Order), k any integer
Root(k) == [n |-> RootTab[(k % Order) + 1], d |-> 1]

Zero == [n |-> NZero, d |-> 1]
One == Root(0)

\* zeta^r * n for r in 0..HalfTurn-1, from zeta^8 = zeta^4 - 1
NTurn(n, r) ==
  CASE r = 0 -> << n[1], n[2], n[3], n[4], n[5], n[6], n[7], n[8] >>
       [] r = 1 -> << -n[8], n[1], n[2], n[3], n[4] + n[8], n[5], n[6], n[7] >>
       [] r = 2 -> << -n[7], -n[8], n[1], n[2], n[3] + n[7], n[4] + n[8], n[5], n[6] >>
       [] r = 3 -> << -n[6], -n[7], -n[8], n[1], n[2] + n[6], n[3] + n[7], n[4] + n[8], n[5] >>
       [] r = 4 -> << -n[5], -n[6], -n[7], -n[8], n[1] + n[5], n[2] + n[6], n[3] + n[7], n[4] + n[8] >>
       [] r = 5 -> << -n[4] - n[8], -n[5], -n[6], -n[7], n[4], n[1] + n[5], n[2] + n[6], n[3] + n[7] >>
       [] r = 6 -> << -n[3] - n[7], -n[4] - n[8], -n[5], -n[6], n[3], n[4], n[1] + n[5], n[2] + n[6] >>
       [] r = 7 -> << -n[2] - n[6], -n[3] - n[7], -n[4] - n[8], -n[5], n[2], n[3], n[4], n[1] + n[5] >>
       [] r = 8 -> << -n[1] - n[5], -n[2] - n[6], -n[3] - n[7], -n[4] - n[8], n[1], n[2], n[3], n[4] >>
       [] r = 9 -> << -n[4], -n[1] - n[5], -n[2] - n[6], -n[3] - n[7], -n[8], n[1], n[2], n[3] >>
       [] r = 10 -> << -n[3], -n[4], -n[1] - n[5], -n[2] - n[6], -n[7], -n[8], n[1], n[2] >>
       [] r = 11 -> << -n[2], -n[3], -n[4], -n[1] - n[5], -n[6], -n[7], -n[8], n[1] >>

NNeg(n) == << -n[1], -n[2], -n[3], -n[4], -n[5], -n[6], -n[7], -n[8] >>

\* zeta^k * n for any integer k, by zeta^HalfTurn = -1
NRot(n, k) ==
    LET r == k % Order
    IN  IF r < HalfTurn THEN NTurn(n, r) ELSE NNeg(NTurn(n, r - HalfTurn))

\* zeta -> zeta^(-1)
NBar(n) ==
    << n[1] + n[5], n[4], n[3], n[2],
       -n[5], -(n[8] + n[4]), -(n[7] + n[3]), -(n[6] + n[2]) >>

CAdd(y, z) ==
    IF y.d = z.d THEN C(NAdd(y.n, z.n), y.d)
    ELSE C(NAdd(NScale(y.n, z.d), NScale(z.n, y.d)), y.d * z.d)
CSub(y, z) ==
    IF y.d = z.d THEN C(NSub(y.n, z.n), y.d)
    ELSE C(NSub(NScale(y.n, z.d), NScale(z.n, y.d)), y.d * z.d)

\* z * zeta^k
CMulRoot(z, k) == [n |-> NRot(z.n, k), d |-> z.d]

\* the sum over i <= k of n[i] * zeta^(i-1) * m
RECURSIVE NMulTo(_, _, _)
NMulTo(n, m, k) ==
    IF k = 0 THEN NZero
    ELSE IF n[k] = 0 THEN NMulTo(n, m, k - 1)
    ELSE NAdd(NScale(NRot(m, k - 1), n[k]), NMulTo(n, m, k - 1))

\* y * z
CMul(y, z) == C(NMulTo(y.n, z.n, 8), y.d * z.d)

\* z / k for an integer k > 0
CDivInt(z, k) == C(z.n, z.d * k)

\* the complex conjugate: real part unchanged, imaginary part negated
CBar(z) == [n |-> NBar(z.n), d |-> z.d]

\* z.real = (z + conj z) / 2 and z.imag = (z - conj z) / 2i, real numbers
CReal(z) == C(NAdd(z.n, NBar(z.n)), 2 * z.d)
CImag(z) == C(NRot(NSub(z.n, NBar(z.n)), Order - QuarterTurn), 2 * z.d)

\* abs(z)^2
AbsSq(z) == CMul(z, CBar(z))

(***************************************************************************)
(* Arrays are sequences; Python's x[k] is At(x, k).                        *)
(***************************************************************************)
At(x, k) == x[k + 1]
Indices(x) == 0..(Len(x) - 1)

\* N & M on non-negative integers
RECURSIVE BitAnd(_, _)
BitAnd(p, q) ==
    IF p = 0 \/ q = 0 THEN 0
    ELSE (p % 2) * (q % 2) + 2 * BitAnd(p \div 2, q \div 2)

\* x[0::2] and x[1::2]
EvenPart(x) == Vec([k \in 1..((Len(x) + 1) \div 2) |-> x[2 * k - 1]], (Len(x) + 1) \div 2)
OddPart(x) == Vec([k \in 1..(Len(x) \div 2) |-> x[2 * k]], Len(x) \div 2)

RECURSIVE VecSumTo(_, _)
VecSumTo(f, k) == IF k = 0 THEN Zero ELSE CAdd(f[k], VecSumTo(f, k - 1))

\* a common denominator of x[1..k]
RECURSIVE Lcd(_, _)
Lcd(x, k) ==
    IF k = 0 THEN 1
    ELSE LET l == Lcd(x, k - 1) IN (l * x[k].d) \div Gcd(l, x[k].d)

\* sum over n of exp(-2j*pi*k*n/N) * x[n], over the denominator l
RECURSIVE DftRow(_, _, _, _)
DftRow(x, l, k, n) ==
    IF n = 0 THEN NZero
    ELSE NAdd(NRot(NScale(x[n].n, l \div x[n].d), (-(k * (n - 1) * (Order \div Len(x)))) % Order),
              DftRow(x, l, k, n - 1))

\* exp(-2j*pi*k/N), for N dividing Order
Twiddle(k, N) == (-(k * (Order \div N))) % Order

\* np.dot(M, x) with M[k][n] = exp(-2j*pi*k*n/N)
DirectDFT(x) ==
    LET N == Len(x)
        l == Lcd(x, N)
    IN  Vec([k \in 1..N |-> C(DftRow(x, l, k - 1, N), l)], N)

\* even + T*odd in both halves
ButterflySameSign(even, odd) ==
    LET h == Len(even)
        N == 2 * h
    IN  Vec([k \in 1..N |->
               IF k <= h
               THEN CAdd(even[k], CMulRoot(odd[k], Twiddle(k - 1, N)))
               ELSE CAdd(even[k - h], CMulRoot(odd[k - h], Twiddle(k - h - 1, N)))],
            N)

\* even + T*odd followed by even - T*odd
Butterfly(even, odd) ==
    LET h == Len(even)
        N == 2 * h
    IN  Vec([k \in 1..N |->
               IF k <= h
               THEN CAdd(even[k], CMulRoot(odd[k], Twiddle(k - 1, N)))
               ELSE CSub(even[k - h], CMulRoot(odd[k - h], Twiddle(k - h - 1, N)))],
            N)

\* an odd length taken for "not a power of two"
IsOdd(N) == N % 2 # 0

\* line 21: N & (N - 1) != 0
NotPowerOfTwo(N) == BitAnd(N, N - 1) # 0

RECURSIVE custom_fft(_)
custom_fft(x) ==
    LET N == Len(x)
    IN  IF N <= 1 THEN x
        ELSE IF NotPowerOfTwo(N) THEN DirectDFT(x)
        ELSE Butterfly(custom_fft(EvenPart(x)), custom_fft(OddPart(x)))

\* x.real - 1j * x.imag, elementwise
custom_conj(x) == Vec([k \in 1..Len(x) |-> CBar(x[k])], Len(x))

\* the inverse transform without the division by N
IfftUnscaled(x) == custom_conj(custom_fft(custom_conj(x)))

\* conj(fft(conj(x))) / N
custom_ifft(x) ==
    LET N == Len(x)
        y == custom_conj(custom_fft(custom_conj(x)))
    IN  Vec([k \in 1..N |-> CDivInt(y[k], N)], N)

\* USE_CUSTOM_FFT = True selects the custom pair
fft(x) == custom_fft(x)
ifft(x) == custom_ifft(x)

(***************************************************************************)
(* Bounds of the model.                                                    *)
(***************************************************************************)
\* dimensions D range over the lengths 1..MaxD whose twiddles lie in the field
MaxD == 6
\* eps ranges over 0/SampleGrid .. MaxEps/SampleGrid
MaxEps == 4
\* exponents are p/q with |p| <= MaxP and q in Denominators
MaxP == 2

Lengths == {d \in 1..MaxD : Order % d = 0}

\* eps and the uniform draws are multiples of 1/SampleGrid of a half turn: the
\* sampled phases are even angles, so that half of one is again an angle
SampleGrid == HalfTurn \div 2
PhaseStep == HalfTurn \div SampleGrid

\* an exponent p/q is << p, q >>, in lowest terms with q > 0
Denominators == {1, 2}
Exponents ==
    {e \in (-MaxP..MaxP) \X Denominators : Gcd(e[1], e[2]) = 1}

\* a * b in lowest terms
ExpTimes(e1, e2) ==
    LET p == e1[1] * e2[1]
        q == e1[2] * e2[2]
        g == Gcd(p, q)
    IN  << p \div g, q \div g >>

IsInteger(e) == e[2] = 1

(***************************************************************************)
(* power_ssp                                                               *)
(***************************************************************************)
IsRoot(z) == z.d = 1 /\ \E j \in 1..Order : RootTab[j] = z.n

\* a phase taken in [0, Order) instead of the principal one
ArgUnsigned(z) == (CHOOSE j \in 1..Order : RootTab[j] = z.n) - 1

\* the principal phase of a unit-magnitude z, in (-HalfTurn, HalfTurn]
Arg(z) ==
    LET j == (CHOOSE j \in 1..Order : RootTab[j] = z.n) - 1
    IN  IF j > HalfTurn THEN j - Order ELSE j

\* z ** e with the exponent truncated to an integer
CPowTruncated(z, e) ==
    IF e[1] = 0 THEN One
    ELSE IF z = Zero THEN Zero
    ELSE Root(Arg(z) * (e[1] \div e[2]))

\* z ** e = abs(z)^e * exp(i * e * Arg(z)), the principal branch
CPow(z, e) ==
    IF e[1] = 0 THEN One
    ELSE IF z = Zero THEN Zero
    ELSE Root((Arg(z) * e[1]) \div e[2])

\* z ** e is a number of the field (and is finite)
CanPow(z, e) ==
    IF e[1] = 0 THEN TRUE
    ELSE IF z = Zero THEN e[1] > 0
    ELSE IsRoot(z) /\ (Arg(z) * e[1]) % e[2] = 0

\* power_ssp with the forward transform where the inverse belongs
PowerTraceForward(ssp, exponent) ==
    LET N == Len(ssp)
        ssp_fft == fft(ssp)
    IN  IF \E k \in 1..N : ~CanPow(ssp_fft[k], exponent) THEN NoCall
        ELSE LET pow == Vec([k \in 1..N |-> CPow(ssp_fft[k], exponent)], N)
                 inv == fft(pow)
             IN  [exponent |-> exponent,
                  ssp_fft |-> ssp_fft,
                  pow |-> pow,
                  ssp_pow |-> Vec([k \in 1..N |-> CReal(inv[k])], N),
                  dropped |-> Vec([k \in 1..N |-> CImag(inv[k])], N)]

\* the values power_ssp computes: fft(ssp), fft(ssp) ** exponent, its inverse
\* transform, the real part returned and the imaginary part dropped.  NoCall
\* when some fft(ssp)[k] ** exponent is no number of the field.
PowerTrace(ssp, exponent) ==
    LET N == Len(ssp)
        ssp_fft == fft(ssp)
    IN  IF \E k \in 1..N : ~CanPow(ssp_fft[k], exponent) THEN NoCall
        ELSE LET pow == Vec([k \in 1..N |-> CPow(ssp_fft[k], exponent)], N)
                 inv == ifft(pow)
             IN  [exponent |-> exponent,
                  ssp_fft |-> ssp_fft,
                  pow |-> pow,
                  ssp_pow |-> Vec([k \in 1..N |-> CReal(inv[k])], N),
                  dropped |-> Vec([k \in 1..N |-> CImag(inv[k])], N)]

power_ssp(ssp, exponent) == PowerTrace(ssp, exponent).ssp_pow

(***************************************************************************)
(* make_good_unitary                                                       *)
(***************************************************************************)
\* the number of uniform draws a = k/Slots(eps), k in 0..Slots(eps)-1, that
\* fall on the sample grid: a * (1 - 2*eps) is a multiple of 1/SampleGrid
Slots(e) == Abs(SampleGrid - 2 * e)
Draws(e) == 0..(IF Slots(e) = 0 THEN 0 ELSE Slots(e) - 1)

\* the phase without its eps offset: sign * pi * a * (1 - 2 * eps)
PhaseNoOffset(e, k, sg) == sg * PhaseStep * (k * Sgn(SampleGrid - 2 * e))

\* sign * pi * (eps + a * (1 - 2 * eps)), in angle units
Phase(e, k, sg) == sg * PhaseStep * (e + k * Sgn(SampleGrid - 2 * e))

\* the indices start:stop:step of a slice, start and stop already resolved
RECURSIVE PySlice(_, _, _)
PySlice(start, stop, step) ==
    IF (step > 0 /\ start >= stop) \/ (step < 0 /\ start <= stop) THEN << >>
    ELSE << start >> \o PySlice(start + step, stop, step)

\* fv[idx[i]] = vals[i] for every i, counting the writes to each bin
RECURSIVE Assign(_, _, _, _)
Assign(st, idx, vals, i) ==
    IF i = 0 THEN st
    ELSE LET prev == Assign(st, idx, vals, i - 1)
         IN  [val |-> [prev.val EXCEPT ![idx[i] + 1] = vals[i]],
              cnt |-> [prev.cnt EXCEPT ![idx[i] + 1] = @ + 1]]

Take(x, idx) == Vec([i \in 1..Len(idx) |-> At(x, idx[i])], Len(idx))

\* the spectrum without the middle bin of an even D
SpectrumNoMiddle(d, ph) ==
    LET st0 == [val |-> Vec([k \in 1..d |-> Zero], d),
                cnt |-> Vec([k \in 1..d |-> 0], d)]
        st1 == Assign(st0, << 0 >>, << One >>, 1)
        pos == PySlice(1, (d + 1) \div 2, 1)
        st2 == Assign(st1, pos, Vec([i \in 1..Len(ph) |-> Root(ph[i])], Len(ph)), Len(pos))
        neg == PySlice(d - 1, d \div 2, -1)
        src == Take(st2.val, pos)
    IN  Assign(st2, neg, Vec([i \in 1..Len(src) |-> CBar(src[i])], Len(src)), Len(neg))

\* lines 83-88: the target spectrum and how often each bin was written
Spectrum(d, ph) ==
    LET st0 == [val |-> Vec([k \in 1..d |-> Zero], d),
                cnt |-> Vec([k \in 1..d |-> 0], d)]
        st1 == Assign(st0, << 0 >>, << One >>, 1)
        pos == PySlice(1, (d + 1) \div 2, 1)
        st2 == Assign(st1, pos, Vec([i \in 1..Len(ph) |-> Root(ph[i])], Len(ph)), Len(pos))
        neg == PySlice(d - 1, d \div 2, -1)
        src == Take(st2.val, pos)
        st3 == Assign(st2, neg, Vec([i \in 1..Len(src) |-> CBar(src[i])], Len(src)), Len(neg))
    IN  IF d % 2 = 0 THEN Assign(st3, << d \div 2 >>, << One >>, 1) ELSE st3

RealPart(x) == Vec([k \in 1..Len(x) |-> CReal(x[k])], Len(x))

\* np.linalg.norm(v) ^ 2
NormSq(x) == VecSumTo([k \in 1..Len(x) |-> AbsSq(x[k])], Len(x))

VARIABLES
    pc,        \* where make_good_unitary stands
    D, eps,    \* its arguments
    a, sign,   \* the draws of rng.rand and rng.choice
    phi, fv, writes, v,
    passed,    \* the assertions passed so far, in order
    result,    \* the vector returned to the caller
    first,     \* power_ssp(result, e1)
    second,    \* power_ssp(power_ssp(result, e1), e2)
    \* one call of custom_fft, run frame by frame
    input,     \* its argument
    stack,     \* the frames of custom_fft, the innermost last
    output,    \* << y >> once the outermost frame has returned y
    depth,     \* the deepest the stack has been
    direct,    \* the stack depths at which the direct summation ran
    steps      \* the steps taken so far

ssp == << pc, D, eps, a, sign, phi, fv, writes, v, passed, result, first, second >>
call == << input, stack, output, depth, direct, steps >>
vars == << ssp, call >>

Init ==
    /\ pc = "entry"
    /\ D = 0 /\ eps = 0
    /\ a = << >> /\ sign = << >> /\ phi = << >>
    /\ fv = << >> /\ writes = << >> /\ v = << >>
    /\ passed = << >>
    /\ result = None /\ first = NoCall /\ second = NoCall
    /\ input = << >> /\ stack = << >> /\ output = << >>
    /\ depth = 0 /\ direct = {} /\ steps = 0

\* lines 76-79
Sample ==
    /\ pc = "entry"
    /\ \E d \in Lengths, e \in 0..MaxEps :
         \E ks \in [1..((d - 1) \div 2) -> Draws(e)],
            sg \in [1..((d - 1) \div 2) -> {-1, 1}] :
           /\ D' = d /\ eps' = e
           /\ a' = Vec(ks, (d - 1) \div 2)
           /\ sign' = Vec(sg, (d - 1) \div 2)
           /\ phi' = Vec([i \in 1..((d - 1) \div 2) |-> Phase(e, ks[i], sg[i])],
                         (d - 1) \div 2)
    /\ pc' = "assert_lower"
    /\ UNCHANGED << fv, writes, v, passed, result, first, second, call >>

\* an assert statement that goes on whether or not cond holds
CheckSkipped(name, cond, next) ==
    /\ pc = name
    /\ pc' = next
    /\ passed' = IF cond THEN Append(passed, name) ELSE passed

\* an assert statement: go on when cond holds, raise otherwise
Check(name, cond, next) ==
    /\ pc = name
    /\ IF cond
       THEN pc' = next /\ passed' = Append(passed, name)
       ELSE pc' = "aborted" /\ passed' = passed

\* line 80
AssertPhaseLower ==
    /\ Check("assert_lower",
             \A i \in 1..Len(phi) : Abs(phi[i]) >= PhaseStep * eps,
             "assert_upper")
    /\ UNCHANGED << D, eps, a, sign, phi, fv, writes, v, result, first, second, call >>

\* line 81
AssertPhaseUpper ==
    /\ Check("assert_upper",
             \A i \in 1..Len(phi) : Abs(phi[i]) <= HalfTurn - PhaseStep * eps,
             "build")
    /\ UNCHANGED << D, eps, a, sign, phi, fv, writes, v, result, first, second, call >>

\* lines 83-88
BuildSpectrum ==
    /\ pc = "build"
    /\ fv' = Spectrum(D, phi).val
    /\ writes' = Spectrum(D, phi).cnt
    /\ pc' = "assert_magnitude"
    /\ UNCHANGED << D, eps, a, sign, phi, v, passed, result, first, second, call >>

\* line 90
AssertMagnitude ==
    /\ Check("assert_magnitude",
             \A k \in 1..Len(fv) : AbsSq(fv[k]) = One,
             "invert")
    /\ UNCHANGED << D, eps, a, sign, phi, fv, writes, v, result, first, second, call >>

\* lines 91-93
Invert ==
    /\ pc = "invert"
    /\ v' = RealPart(ifft(fv))
    /\ pc' = "assert_roundtrip"
    /\ UNCHANGED << D, eps, a, sign, phi, fv, writes, passed, result, first, second, call >>

\* line 94
AssertRoundTrip ==
    /\ Check("assert_roundtrip", fft(v) = fv, "assert_norm")
    /\ UNCHANGED << D, eps, a, sign, phi, fv, writes, v, result, first, second, call >>

\* line 95
AssertNorm ==
    /\ Check("assert_norm", NormSq(v) = One, "return")
    /\ UNCHANGED << D, eps, a, sign, phi, fv, writes, v, result, first, second, call >>

\* line 96
Return ==
    /\ pc = "return"
    /\ result' = v
    /\ pc' = "returned"
    /\ UNCHANGED << D, eps, a, sign, phi, fv, writes, v, passed, first, second, call >>

\* power_ssp(result, e)
PowerFirst ==
    /\ pc = "returned" /\ first = NoCall
    /\ \E e \in Exponents :
         /\ first' = PowerTrace(result, e)
         /\ first' # NoCall
    /\ UNCHANGED << pc, D, eps, a, sign, phi, fv, writes, v, passed, result, second, call >>

\* power_ssp(power_ssp(result, e1), e2)
PowerSecond ==
    /\ pc = "returned" /\ first # NoCall /\ second = NoCall
    /\ \E e \in Exponents :
         /\ second' = PowerTrace(first.ssp_pow, e)
         /\ second' # NoCall
    /\ UNCHANGED << pc, D, eps, a, sign, phi, fv, writes, v, passed, result, first, call >>

(***************************************************************************)
(* custom_fft, one frame per call                                          *)
(***************************************************************************)
\* transform lengths 0..MaxN whose twiddles lie in the field
MaxN == 8
FftLengths == {0} \cup {N \in 1..MaxN : Order % N = 0}
Samples == {Zero, Root(1)}

Frame(x) == [x |-> x, at |-> "entry", even |-> << >>, odd |-> << >>]

Top == stack[Len(stack)]
Push(f, at) ==
    Append([stack EXCEPT ![Len(stack)].at = at], f)

\* the innermost frame returns y: to its caller's even or odd, or to the user
Deliver(y) ==
    IF Len(stack) = 1
    THEN stack' = << >> /\ output' = << y >>
    ELSE LET k == Len(stack) - 1
             caller == stack[k]
         IN  /\ output' = output
             /\ stack' = [SubSeq(stack, 1, k) EXCEPT ![k] =
                            IF caller.at = "wait_even"
                            THEN [caller EXCEPT !.even = y, !.at = "call_odd"]
                            ELSE [caller EXCEPT !.odd = y, !.at = "conquer"]]

Step ==
    /\ steps' = steps + 1
    /\ depth' = IF Len(stack') > depth THEN Len(stack') ELSE depth
    /\ UNCHANGED << input, ssp >>

\* custom_fft(x) is called
FftCall ==
    /\ input = << >> /\ stack = << >> /\ output = << >>
    /\ \E N \in FftLengths : \E x \in [1..N -> Samples] :
         /\ input' = Vec(x, N)
         /\ stack' = << Frame(Vec(x, N)) >>
    /\ depth' = 1 /\ steps' = 0
    /\ UNCHANGED << output, direct, ssp >>

\* lines 17-18
FftBase ==
    /\ stack # << >> /\ Top.at = "entry"
    /\ Len(Top.x) <= 1
    /\ Deliver(Top.x)
    /\ Step /\ UNCHANGED direct

\* lines 21-26
FftDirect ==
    /\ stack # << >> /\ Top.at = "entry"
    /\ Len(Top.x) > 1 /\ NotPowerOfTwo(Len(Top.x))
    /\ Deliver(DirectDFT(Top.x))
    /\ direct' = direct \cup {Len(stack)}
    /\ Step

\* line 30
FftDivideEven ==
    /\ stack # << >> /\ Top.at = "entry"
    /\ Len(Top.x) > 1 /\ ~NotPowerOfTwo(Len(Top.x))
    /\ stack' = Push(Frame(EvenPart(Top.x)), "wait_even")
    /\ Step /\ UNCHANGED << output, direct >>

\* line 31
FftDivideOdd ==
    /\ stack # << >> /\ Top.at = "call_odd"
    /\ stack' = Push(Frame(OddPart(Top.x)), "wait_odd")
    /\ Step /\ UNCHANGED << output, direct >>

\* lines 34-35
FftConquer ==
    /\ stack # << >> /\ Top.at = "conquer"
    /\ Deliver(Butterfly(Top.even, Top.odd))
    /\ Step /\ UNCHANGED direct

FftNext ==
    \/ FftCall
    \/ FftBase
    \/ FftDirect
    \/ FftDivideEven
    \/ FftDivideOdd
    \/ FftConquer

FftSpec == Init /\ [][FftNext]_vars

Next ==
    \/ Sample
    \/ AssertPhaseLower
    \/ AssertPhaseUpper
    \/ BuildSpectrum
    \/ AssertMagnitude
    \/ Invert
    \/ AssertRoundTrip
    \/ AssertNorm
    \/ Return
    \/ PowerFirst
    \/ PowerSecond

Spec == Init /\ [][Next]_vars

(***************************************************************************)
(* The claims                                                              *)
(***************************************************************************)
AllChecks ==
    << "assert_lower", "assert_upper", "assert_magnitude", "assert_roundtrip",
       "assert_norm" >>

Impulse(d) == Vec([k \in 1..d |-> IF k = 1 THEN One ELSE Zero], d)
IsReal(z) == CBar(z) = z
AllZero(x) == \A k \in 1..Len(x) : x[k] = Zero
UnitMagnitude(x) == \A k \in 1..Len(x) : AbsSq(x[k]) = One
\* bin D-k is the conjugate of bin k
ConjSymmetric(x) ==
    \A k \in 1..(Len(x) - 1) : At(x, Len(x) - k) = CBar(At(x, k))

\* the exponent a * phase of bin k stays a principal phase
NoWrap(spectrum, e) ==
    \A k \in 1..Len(spectrum) :
       LET t == Arg(spectrum[k]) * e[1]
       IN  -HalfTurn * e[2] < t /\ t <= HalfTurn * e[2]

\* power_ssp(result, a * b), when it is a vector of the field
Composed ==
    {t \in {PowerTrace(result, ExpTimes(first.exponent, second.exponent))} : t # NoCall}

C2_IdentityAtOne ==
    /\ (first # NoCall /\ first.exponent = << 1, 1 >>) => first.ssp_pow = result
    /\ (second # NoCall /\ second.exponent = << 1, 1 >>)
          => second.ssp_pow = first.ssp_pow
    /\ (pc = "returned" /\ first = NoCall) => ifft(fft(result)) = result

C2_Witness ==
    /\ first # NoCall /\ first.exponent = << 1, 1 >>
    /\ D = 6 /\ result # Impulse(D)

\* C3: power_ssp(v, 0) is the impulse: 1 at index 0, 0 elsewhere.
C3_ZeroExponent ==
    (first # NoCall /\ first.exponent = << 0, 1 >>)
        => /\ \A k \in 1..D : first.pow[k] = One
           /\ first.ssp_pow = Impulse(D)

C3_Witness ==
    /\ first # NoCall /\ first.exponent = << 0, 1 >>
    /\ D = 6 /\ result # Impulse(D)

\* C4: for D >= 2, make_good_unitary returns D real components of Euclidean
\* norm 1; the norm assertion never fails, and for 0 <= eps <= 1/2 none does.
C4_UnitNorm ==
    /\ (D >= 2 /\ pc = "returned" /\ first = NoCall)
          => /\ Len(result) = D
             /\ \A k \in 1..D : IsReal(result[k])
             /\ NormSq(result) = One
    /\ (D >= 2 /\ pc = "aborted") => Len(passed) < 4
    /\ (D >= 2 /\ 2 * eps <= SampleGrid) => pc # "aborted"

C4_Witness ==
    /\ pc = "returned" /\ D = 6 /\ eps = 1
    /\ phi[1] # phi[2] /\ result # Impulse(D)

\* C5: after the writes of lines 83-88 bins 1..ceil(D/2)-1 hold the sampled
\* phasors, bin D-k the conjugate of bin k, bin 0 (and D/2 for even D) holds 1,
\* and every bin has been written exactly once and has magnitude 1.
C5_SpectrumConstruction ==
    pc = "assert_magnitude"
        => /\ Len(fv) = D /\ Len(writes) = D
           /\ Len(phi) = (D - 1) \div 2
           /\ \A i \in 1..Len(phi) : At(fv, i) = Root(phi[i])
           /\ Len(phi) = (D + 1) \div 2 - 1
           /\ ConjSymmetric(fv)
           /\ At(fv, 0) = One
           /\ D % 2 = 0 => At(fv, D \div 2) = One
           /\ \A k \in 0..(D - 1) : At(writes, k) = 1
           /\ UnitMagnitude(fv)

C5_Witness ==
    /\ pc = "assert_magnitude" /\ D = 6
    /\ phi[1] # phi[2] /\ phi[1] # -phi[2]

PhaseBounds ==
    \A i \in 1..Len(phi) :
       /\ Abs(phi[i]) >= PhaseStep * eps
       /\ Abs(phi[i]) <= HalfTurn - PhaseStep * eps
       /\ phi[i] # 0
       /\ Abs(phi[i]) # HalfTurn

\* C6 as stated: for every eps make_good_unitary accepts (both phase
\* assertions passed) the sampled phases have magnitude within
\* [eps*pi, (1-eps)*pi] and none is 0 or pi.
C6_PhaseBoundsAnyEps ==
    Len(passed) >= 2 => PhaseBounds

\* C6 amended: for every eps with 0 < eps <= 1/2 the sampled phases have
\* magnitude within [eps*pi, (1-eps)*pi], both phase assertions pass and no
\* phase is 0 or pi.
C6_PhaseBounds ==
    /\ (pc # "entry" /\ 0 < eps /\ 2 * eps <= SampleGrid) => PhaseBounds
    /\ (pc = "aborted" /\ 0 < eps /\ 2 * eps <= SampleGrid) => Len(passed) >= 2

C6_Witness ==
    /\ pc = "build" /\ D = 6 /\ eps = 1
    /\ Abs(phi[1]) = PhaseStep * eps
    /\ Abs(phi[2]) = HalfTurn - PhaseStep * eps - PhaseStep

\* the library transform np.fft.fft: bin k is the sum over n of
\* x[n] * exp(-2*pi*i*k*n/N)
np_fft(x) ==
    LET N == Len(x)
    IN  Vec([k \in 1..N |->
               VecSumTo([n \in 1..N |->
                           CMul(x[n], Root(-((k - 1) * (n - 1) * (Order \div N))))], N)],
            N)

\* C7: for an input of power-of-two length the radix-2 branch returns, bin by
\* bin, the DFT sum: what the direct summation and the library transform give.
C7_RadixTwoIsDft ==
    (output # << >> /\ Len(input) > 1 /\ ~NotPowerOfTwo(Len(input)))
        => /\ output[1] = DirectDFT(input)
           /\ output[1] = np_fft(input)
           /\ output[1] = custom_fft(input)

C7_Witness ==
    /\ output # << >> /\ Len(input) = 8
    /\ input[2] # input[1] /\ input[4] # input[3] /\ input[8] = Root(1)

IsPrefix(x, y) == Len(x) <= Len(y) /\ x = SubSeq(y, 1, Len(x))
PhaseOutOfRange ==
    \E i \in 1..Len(phi) :
       \/ Abs(phi[i]) < PhaseStep * eps
       \/ Abs(phi[i]) > HalfTurn - PhaseStep * eps

\* C8: make_good_unitary returns a vector only after all five checks passed
\* in order; a failed check aborts the call there: nothing later runs and no
\* vector is returned.
C8_AssertionsFatal ==
    /\ IsPrefix(passed, AllChecks)
    /\ pc = "returned" => passed = AllChecks
    /\ result # None => pc = "returned"
    /\ pc = "aborted"
          => /\ result = None /\ first = NoCall /\ second = NoCall
             /\ ~ENABLED Next
             /\ Len(passed) < 2 => (fv = << >> /\ v = << >>)
             /\ Len(passed) < 3 => v = << >>
    /\ (pc # "entry" /\ PhaseOutOfRange)
          => /\ pc \in {"assert_lower", "assert_upper", "aborted"}
             /\ fv = << >> /\ v = << >> /\ result = None

C8_Witness ==
    /\ pc = "aborted" /\ passed = << "assert_lower" >> /\ D = 6

GoodCall(t) ==
    /\ UnitMagnitude(t.pow)
    /\ ConjSymmetric(t.pow)
    /\ AllZero(t.dropped)

\* C9 as stated: the exponentiated spectrum has magnitude 1 in every bin and
\* is conjugate-symmetric, and the imaginary part dropped is zero, for
\* power_ssp of a vector of make_good_unitary and of power_ssp's own output.
C9_StaysSsp ==
    /\ first # NoCall => GoodCall(first)
    /\ second # NoCall => GoodCall(second)

\* C9 amended: the same, for power_ssp of its own output only when the
\* exponent is an integer or no bin of the spectrum it is given is -1.
C9_StaysSspFirst ==
    /\ first # NoCall => GoodCall(first)
    /\ (/\ second # NoCall
        /\ \/ IsInteger(second.exponent)
           \/ \A k \in 1..D : second.ssp_fft[k] # Root(HalfTurn))
          => GoodCall(second)

C9_Witness ==
    /\ second # NoCall /\ D = 6
    /\ first.exponent = << -1, 2 >> /\ second.exponent = << 1, 2 >>
    /\ result # Impulse(D)

\* the innermost frame can take a step: it is not waiting for a callee
Runnable ==
    \/ Top.at = "entry" /\ Len(Top.x) <= 1
    \/ Top.at = "entry" /\ Len(Top.x) > 1
    \/ Top.at = "call_odd"
    \/ Top.at = "conquer"

RECURSIVE TwoTo(_)
TwoTo(k) == IF k = 0 THEN 1 ELSE 2 * TwoTo(k - 1)

RECURSIVE Log2(_)
Log2(N) == IF N <= 1 THEN 0 ELSE 1 + Log2(N \div 2)

\* C10: custom_fft returns for every length N >= 0: at once for N <= 1, after
\* one direct summation and no recursion when N is no power of two, and
\* otherwise by recursing on halves that are powers of two again, never
\* entering the direct summation, to a recursion depth of log2(N).
C10_Terminates ==
    LET N == Len(input)
        running == stack # << >>
    IN  /\ running => (Runnable /\ steps <= 4 * N)
        /\ (running \/ output # << >>) =>
              /\ N <= 1 => depth = 1
              /\ (N > 1 /\ NotPowerOfTwo(N)) => (depth = 1 /\ direct \subseteq {1})
              /\ (N > 1 /\ ~NotPowerOfTwo(N)) =>
                    /\ direct = {}
                    /\ depth <= Log2(N) + 1
                    /\ \A i \in 1..Len(stack) :
                          /\ ~NotPowerOfTwo(Len(stack[i].x))
                          /\ Len(stack[i].x) * TwoTo(i - 1) = N
        /\ output # << >> =>
              /\ N <= 1 => steps = 1
              /\ (N > 1 /\ NotPowerOfTwo(N)) => (steps = 1 /\ direct = {1})
              /\ (N > 1 /\ ~NotPowerOfTwo(N)) =>
                    (depth = Log2(N) + 1 /\ steps = 4 * N - 3)
              /\ Len(output[1]) = N

C10_Witness ==
    /\ output # << >> /\ Len(input) = 8 /\ depth = 4

====
